---- MODULE Spec2Model ----
(***************************************************************************)
(* Model of ETL_Banks/ETL_Project_Banks.py: the module-level pipeline      *)
(* (log, extract, transform, load to CSV, load to database, three          *)
(* queries, close) as a state machine with one action per statement, and   *)
(* the functions extract, transform, load_to_csv, load_to_db and           *)
(* log_progress as operators.                                              *)
(*                                                                         *)
(* Representation.  A text is a sequence of one-character strings.  A      *)
(* number of the data frame is a fixed-point integer counting hundredths   *)
(* (100.0 is 10000); an exchange rate counts thousandths (0.93 is 930);    *)
(* their product counts hundred-thousandths.  The documents and rate       *)
(* files below stay within that resolution, so the arithmetic on them is   *)
(* exact decimal arithmetic.                                               *)
(***************************************************************************)
EXTENDS Integers, Sequences, FiniteSets, TLC

\* Longest run of data rows (rows after the first) of a table body.
MaxRows == 2
\* Number of invocations of the script that are followed.
MaxRuns == 2

VARIABLES
    pc,              \* the statement about to run, "L114" .. "L142", or "done", "failed", "exited"
    run,             \* ordinal of this invocation; stands for datetime.now()
    page,            \* the document behind url: its sequence of tbody elements
    exchange_rate_csv,  \* exchange_rate.csv: currency code -> rate
    df,              \* the module-level data frame: [defined, rows]
    csv_file,        \* Largest_banks_data.csv: [exists, lines]
    db_table,        \* table Largest_banks of Banks.db: [exists, rows]
    code_log,        \* code_log.txt: sequence of lines
    sql_connection,  \* "unbound", "open" or "closed"
    err,             \* the exception that ended the run, "none" otherwise
    failed_at,       \* the statement that raised it
    csv_at_start,    \* history: csv_file when this invocation began
    db_at_start,     \* history: db_table when this invocation began
    log_at_start     \* history: code_log when this invocation began

vars == <<pc, run, page, exchange_rate_csv, df, csv_file, db_table, code_log,
          sql_connection, err, failed_at, csv_at_start, db_at_start, log_at_start>>

----------------------------------------------------------------------------
(* Texts *)

Whitespace == {" ", "\n"}

DigitChars == {"0", "1", "2", "3", "4", "5", "6", "7", "8", "9"}

DigitVal(c) ==
    CASE c = "0" -> 0 [] c = "1" -> 1 [] c = "2" -> 2 [] c = "3" -> 3
      [] c = "4" -> 4 [] c = "5" -> 5 [] c = "6" -> 6 [] c = "7" -> 7
      [] c = "8" -> 8 [] c = "9" -> 9

RECURSIVE LStrip(_)
LStrip(s) ==
    IF s # <<>> /\ Head(s) \in Whitespace THEN LStrip(Tail(s)) ELSE s

RECURSIVE RStrip(_)
RStrip(s) ==
    IF s # <<>> /\ s[Len(s)] \in Whitespace
    THEN RStrip(SubSeq(s, 1, Len(s) - 1)) ELSE s

\* str.strip() with no argument.
strip(s) == RStrip(LStrip(s))

AllDigits(s) == \A i \in 1..Len(s) : s[i] \in DigitChars

RECURSIVE DigitsValue(_)
DigitsValue(s) ==
    IF s = <<>> THEN 0
    ELSE 10 * DigitsValue(SubSeq(s, 1, Len(s) - 1)) + DigitVal(s[Len(s)])

\* The fraction digits as hundredths.
Hundredths(f) ==
    CASE Len(f) = 0 -> 0
      [] Len(f) = 1 -> 10 * DigitVal(f[1])
      [] OTHER      -> 10 * DigitVal(f[1]) + DigitVal(f[2])

\* The text without the surrounding whitespace and the sign float() allows.
Unsigned(s) ==
    LET t == strip(s)
    IN  IF t # <<>> /\ Head(t) \in {"-", "+"} THEN Tail(t) ELSE t

DotsOf(s) == {i \in 1..Len(s) : s[i] = "."}

\* Whether float(s) returns: s is, inside whitespace and after one optional
\* sign, digits with at most one point and at least one digit.  Anything else
\* of the model's alphabet raises ValueError.
IsFloat(s) ==
    LET u == Unsigned(s)
    IN  IF DotsOf(u) = {} THEN u # <<>> /\ AllDigits(u)
        ELSE LET d == CHOOSE i \in DotsOf(u) : TRUE
                 ip == SubSeq(u, 1, d - 1)
                 fp == SubSeq(u, d + 1, Len(u))
             IN  /\ Cardinality(DotsOf(u)) = 1
                 /\ AllDigits(ip) /\ AllDigits(fp)
                 /\ Len(ip) + Len(fp) > 0

\* float(s) in hundredths, for a text float() accepts.
ToFloat(s) ==
    LET u == Unsigned(s)
        t == strip(s)
        magnitude ==
            IF DotsOf(u) = {} THEN 100 * DigitsValue(u)
            ELSE LET d == CHOOSE i \in DotsOf(u) : TRUE
                 IN  100 * DigitsValue(SubSeq(u, 1, d - 1))
                         + Hundredths(SubSeq(u, d + 1, Len(u)))
    IN  IF t # <<>> /\ Head(t) = "-" THEN 0 - magnitude ELSE magnitude

----------------------------------------------------------------------------
(* extract *)

\* Mutant: the slice forgotten, the first row read as data.
AfterFirst_All(rows) == rows

\* rows[1:]
AfterFirst(rows) == IF rows = <<>> THEN <<>> ELSE Tail(rows)

\* Mutant: a row lacking the third cell or the second link is passed over.
RowOutcome_Skips(col) ==
    IF Len(col) > 2 /\ Len(col[2].a) >= 2 THEN "record" ELSE "skip"

\* The body of the loop for one row: "skip" when the row has one cell or
\* none, "error" when link1[1] or col[2] is out of range, "record" otherwise.
RowOutcome(col) ==
    IF Len(col) > 1
    THEN IF Len(col[2].a) < 2 \/ Len(col) < 3 THEN "error" ELSE "record"
    ELSE "skip"

RowRecord(col) ==
    [Name |-> col[2].a[2], MC_USD_Billion |-> strip(col[3].text)]

RECURSIVE ExtractRows(_)
ExtractRows(rows) ==
    IF rows = <<>> THEN <<>>
    ELSE LET rest == ExtractRows(SubSeq(rows, 1, Len(rows) - 1))
             col == rows[Len(rows)]
         IN  IF RowOutcome(col) = "record"
             THEN Append(rest, RowRecord(col))
             ELSE rest

\* extract(url, table_attribs) on a fetched page: IndexError when there is
\* no tbody (tables[0]) or when a row passes the filter and lacks the second
\* link or the third cell; the data frame otherwise.
extract(tables) ==
    IF tables = <<>> THEN [error |-> "IndexError", rows |-> <<>>]
    ELSE LET rows == AfterFirst(tables[1])
         IN  IF \E i \in 1..Len(rows) : RowOutcome(rows[i]) = "error"
             THEN [error |-> "IndexError", rows |-> <<>>]
             ELSE [error |-> "none", rows |-> ExtractRows(rows)]

----------------------------------------------------------------------------
(* transform *)

\* Mutant: a tie goes up.
np_round_HalfUp(v) ==
    IF v % 1000 < 500 THEN v \div 1000 ELSE v \div 1000 + 1

\* np.round(v, 2) of a value counted in hundred-thousandths: to the nearest
\* hundredth, a tie going to the even hundredth.
np_round(v) ==
    LET q == v \div 1000
        r == v % 1000
    IN  IF r < 500 THEN q
        ELSE IF r > 500 THEN q + 1
        ELSE IF q % 2 = 0 THEN q ELSE q + 1

\* [np.round(x*exchange_rate[code],2) for x in df['MC_USD_Billion']]
Converted(usd, rate) == np_round(usd * rate)

\* df['MC_USD_Billion'] = df['MC_USD_Billion'].astype(float)
AsFloat(rows) ==
    [i \in 1..Len(rows) |->
        [Name |-> rows[i].Name, MC_USD_Billion |-> ToFloat(rows[i].MC_USD_Billion)]]

\* Mutant: every column computed with the GBP rate.
WithColumn_CopyPaste(rows, column, code, rates) ==
    [i \in 1..Len(rows) |->
        rows[i] @@ (column :> np_round(rows[i].MC_USD_Billion * rates["GBP"]))]

\* df[column] = [np.round(x*exchange_rate[code],2) for x in df['MC_USD_Billion']]
WithColumn(rows, column, code, rates) ==
    [i \in 1..Len(rows) |->
        rows[i] @@ (column :> Converted(rows[i].MC_USD_Billion, rates[code]))]

\* The comprehension evaluates exchange_rate[code] once per record, so an
\* absent code raises KeyError only when the frame has a record.
RaisesKeyError(rows, code, rates) == rows # <<>> /\ code \notin DOMAIN rates

\* transform(df, csv_path) once exchange_rate.csv has been read: the frame it
\* returns, or the exception it raises and the frame as the statements before
\* the raise left it.
transform(rows, rates) ==
    IF \E i \in 1..Len(rows) : ~IsFloat(rows[i].MC_USD_Billion)
    THEN [error |-> "ValueError", rows |-> rows]
    ELSE LET usd == AsFloat(rows)
         IN  IF RaisesKeyError(rows, "GBP", rates)
             THEN [error |-> "KeyError", rows |-> usd]
             ELSE LET gbp == WithColumn(usd, "MC_GBP_Billion", "GBP", rates)
                  IN  IF RaisesKeyError(rows, "EUR", rates)
                      THEN [error |-> "KeyError", rows |-> gbp]
                      ELSE LET eur == WithColumn(gbp, "MC_EUR_Billion", "EUR", rates)
                           IN  IF RaisesKeyError(rows, "INR", rates)
                               THEN [error |-> "KeyError", rows |-> eur]
                               ELSE [error |-> "none",
                                     rows |-> WithColumn(eur, "MC_INR_Billion",
                                                         "INR", rates)]

----------------------------------------------------------------------------
(* load_to_csv, load_to_db, log_progress *)

NoFile == [exists |-> FALSE, header |-> <<>>, lines |-> <<>>]

NoTable == [exists |-> FALSE, columns |-> <<>>, rows |-> <<>>]

Columns ==
    <<"Name", "MC_USD_Billion", "MC_GBP_Billion", "MC_EUR_Billion", "MC_INR_Billion">>

\* The values of a record in column order.
Values(r) == [c \in 1..Len(Columns) |-> r[Columns[c]]]

\* Mutant: the file opened in append mode.
load_to_csv_Append(file, rows) ==
    [exists |-> TRUE,
     header |-> <<"">> \o Columns,
     lines  |-> file.lines \o [i \in 1..Len(rows) |-> <<i - 1>> \o Values(rows[i])]]

\* df.to_csv(output_path): the file is written anew, a header line with an
\* empty label for the index, then one line per record led by its index.
load_to_csv(file, rows) ==
    [exists |-> TRUE,
     header |-> <<"">> \o Columns,
     lines  |-> [i \in 1..Len(rows) |-> <<i - 1>> \o Values(rows[i])]]

\* Mutant: if_exists='append'.
load_to_db_Append(table, rows) ==
    [exists |-> TRUE,
     columns |-> Columns,
     rows |-> table.rows \o [i \in 1..Len(rows) |-> Values(rows[i])]]

\* df.to_sql(table_name, sql_connection, if_exists='replace', index=False):
\* the table, whatever it held, is dropped and created from the frame.
load_to_db(table, rows) ==
    [exists |-> TRUE,
     columns |-> Columns,
     rows |-> [i \in 1..Len(rows) |-> Values(rows[i])]]

\* Mutant: the log opened in mode "w".
log_progress_Truncating(log, now, message) ==
    <<[timestamp |-> now, message |-> message]>>

\* log_progress(message): one line, timestamp + ' : ' + message, appended to
\* the file opened in mode "a".
log_progress(log, now, message) ==
    Append(log, [timestamp |-> now, message |-> message])

\* The messages of the eight log_progress calls, in statement order.
Milestones ==
    <<"Preliminaries Complete. Initiating ETL process",
      "Data extraction complete. Initiating Transformation process",
      "Data transformation complete. Initiating Loading process",
      "Data saved to CSV file",
      "SQL Connection initiated.",
      "Data loaded to Database as a table, Executing queries",
      "Process Complete",
      "Server Connection Closed">>

----------------------------------------------------------------------------
(* The documents and rate files an invocation may meet *)

Cell(links, text) == [a |-> links, text |-> text]

RankCell == Cell(<<>>, <<"1">>)

\* The name cell links the bank twice; the second link carries the title.
NameCell(bank) == Cell(<<"flag", bank>>, <<>>)

DataRow(bank, cap) == <<RankCell, NameCell(bank), Cell(<<>>, cap)>>

HeaderRow == <<>>

BankA == DataRow("Bank A", <<"$", "1", "0", "0", ".", "0", "0", " ">>)

BankB == DataRow("Bank B", <<"5", "0">>)

BankC == DataRow("Bank C", <<" ", "0", ".", "5", "\n">>)

FooterRow == <<Cell(<<>>, <<"t", "o", "t", "a", "l">>)>>

TwoCellRow == <<RankCell, NameCell("Bank D")>>

OneLinkRow == <<RankCell, Cell(<<"Bank E">>, <<>>), Cell(<<>>, <<"7">>)>>

RowKinds == {BankA, BankB, BankC, FooterRow, TwoCellRow, OneLinkRow}

RECURSIVE SeqsUpTo(_, _)
SeqsUpTo(S, n) ==
    IF n = 0 THEN {<<>>}
    ELSE LET shorter == SeqsUpTo(S, n - 1)
         IN  shorter \cup {Append(s, x) : s \in shorter, x \in S}

\* A tbody: no row at all, or a first row and up to MaxRows rows after it.
TableBodies ==
    {<<>>} \cup {<<first>> \o rest : first \in {HeaderRow, BankB},
                                     rest \in SeqsUpTo(RowKinds, MaxRows)}

\* Bank A's row with the currency sign taken out of the market cap.
BankANoSign == DataRow("Bank A", <<"1", "0", "0", ".", "0", "0", " ">>)

ScenarioPage == << <<HeaderRow, BankA, BankB>> >>

ScenarioPageNoSign == << <<HeaderRow, BankANoSign, BankB>> >>

\* A page: no tbody, one tbody, or a second tbody after a short first one.
Pages ==
    {<<>>, ScenarioPageNoSign}
        \cup {<<t>> : t \in TableBodies}
        \cup {<<t, <<HeaderRow, BankB>> >> :
                  t \in {<<>>, <<HeaderRow>>, <<HeaderRow, BankC>>}}

\* The pages the repeated invocations are followed on: one for each way an
\* invocation can go.
SamplePages ==
    {<<>>,
     << <<HeaderRow>> >>,
     << <<HeaderRow, BankB>> >>,
     << <<HeaderRow, BankC, BankB>> >>,
     << <<HeaderRow, BankC, FooterRow>> >>,
     << <<HeaderRow, BankB, TwoCellRow>> >>,
     ScenarioPage}

ScenarioRates == ("GBP" :> 800) @@ ("EUR" :> 930) @@ ("INR" :> 83000)

TieRates == ("GBP" :> 250) @@ ("EUR" :> 750) @@ ("INR" :> 83000)

NoInrRates == ("GBP" :> 800) @@ ("EUR" :> 930)

RateFiles == {ScenarioRates, TieRates, NoInrRates}

----------------------------------------------------------------------------
(* The module-level pipeline, one action per statement *)

Undefined == [defined |-> FALSE, rows |-> <<>>]

Frame(rows) == [defined |-> TRUE, rows |-> rows]

history == <<csv_at_start, db_at_start, log_at_start>>

inputs == <<run, page, exchange_rate_csv>>

\* An uncaught exception ends the run at the statement that raised it.
Raise(e) ==
    /\ pc' = "failed"
    /\ err' = e
    /\ failed_at' = pc

Goto(next) ==
    /\ pc' = next
    /\ UNCHANGED <<err, failed_at>>

\* A statement log_progress(Milestones[k]).
LogStatement(at, k, next) ==
    /\ pc = at
    /\ code_log' = log_progress(code_log, run, Milestones[k])
    /\ Goto(next)
    /\ UNCHANGED <<inputs, df, csv_file, db_table, sql_connection, history>>

Init ==
    /\ pc = "L114"
    /\ run = 1
    /\ page \in SamplePages
    /\ exchange_rate_csv \in RateFiles
    /\ df = Undefined
    /\ csv_file = NoFile
    /\ db_table = NoTable
    /\ code_log = <<>>
    /\ sql_connection = "unbound"
    /\ err = "none"
    /\ failed_at = "none"
    /\ csv_at_start = NoFile
    /\ db_at_start = NoTable
    /\ log_at_start = <<>>

L114 == LogStatement("L114", 1, "L116")

\* df = extract(url, table_attribs); requests.get may raise.
L116 ==
    /\ pc = "L116"
    /\ \/ /\ Raise("ConnectionError")
          /\ UNCHANGED df
       \/ /\ extract(page).error # "none"
          /\ Raise(extract(page).error)
          /\ UNCHANGED df
       \/ /\ extract(page).error = "none"
          /\ df' = Frame(extract(page).rows)
          /\ Goto("L117")
    /\ UNCHANGED <<inputs, csv_file, db_table, code_log, sql_connection, history>>

L117 == LogStatement("L117", 2, "L119")

\* df = transform(df, csv_path); the frame is changed in place, so what the
\* statements before an exception did to it stays.  pd.read_csv runs after
\* the astype and may raise.
L119 ==
    /\ pc = "L119"
    /\ LET usd_ok == \A i \in 1..Len(df.rows) : IsFloat(df.rows[i].MC_USD_Billion)
           out == transform(df.rows, exchange_rate_csv)
       IN  \/ /\ usd_ok
              /\ Raise("FileNotFoundError")
              /\ df' = Frame(AsFloat(df.rows))
           \/ /\ out.error # "none"
              /\ Raise(out.error)
              /\ df' = Frame(out.rows)
           \/ /\ out.error = "none"
              /\ df' = Frame(out.rows)
              /\ Goto("L120")
    /\ UNCHANGED <<inputs, csv_file, db_table, code_log, sql_connection, history>>

L120 == LogStatement("L120", 3, "L122")

\* Mutant: the exception of the write is caught and the script goes on.
L122_Swallowed ==
    /\ pc = "L122"
    /\ \/ /\ pc' = "L123"
          /\ err' = "OSError"
          /\ failed_at' = "L122"
          /\ UNCHANGED csv_file
       \/ /\ csv_file' = load_to_csv(csv_file, df.rows)
          /\ Goto("L123")
    /\ UNCHANGED <<inputs, df, db_table, code_log, sql_connection, history>>

\* load_to_csv(df, output_path); a failed write leaves the file as it was
\* (it could not be opened) or truncated (it was opened for writing).
L122 ==
    /\ pc = "L122"
    /\ \/ /\ Raise("OSError")
          /\ csv_file' \in {csv_file, load_to_csv(csv_file, <<>>)}
       \/ /\ csv_file' = load_to_csv(csv_file, df.rows)
          /\ Goto("L123")
    /\ UNCHANGED <<inputs, df, db_table, code_log, sql_connection, history>>

L123 == LogStatement("L123", 4, "L125")

\* sql_connection = sqlite3.connect('Banks.db')
L125 ==
    /\ pc = "L125"
    /\ \/ /\ Raise("OperationalError")
          /\ UNCHANGED sql_connection
       \/ /\ sql_connection' = "open"
          /\ Goto("L126")
    /\ UNCHANGED <<inputs, df, csv_file, db_table, code_log, history>>

L126 == LogStatement("L126", 5, "L127")

\* load_to_db(df, sql_connection, table_name); a failed write leaves the
\* table as it was (nothing ran) or re-created and empty (the insert failed).
L127 ==
    /\ pc = "L127"
    /\ \/ /\ Raise("DatabaseError")
          /\ db_table' \in {db_table, load_to_db(db_table, <<>>)}
       \/ /\ db_table' = load_to_db(db_table, df.rows)
          /\ Goto("L128")
    /\ UNCHANGED <<inputs, df, csv_file, code_log, sql_connection, history>>

L128 == LogStatement("L128", 6, "L131")

\* run_query(query_statement, sql_connection): reads the table and prints;
\* nothing of the state changes unless pd.read_sql raises.
RunQuery(at, next) ==
    /\ pc = at
    /\ \/ Raise("DatabaseError")
       \/ Goto(next)
    /\ UNCHANGED <<inputs, df, csv_file, db_table, code_log, sql_connection, history>>

L131 == RunQuery("L131", "L134")

L134 == RunQuery("L134", "L137")

L137 == RunQuery("L137", "L139")

L139 == LogStatement("L139", 7, "L141")

\* sql_connection.close()
L141 ==
    /\ pc = "L141"
    /\ sql_connection' = "closed"
    /\ Goto("L142")
    /\ UNCHANGED <<inputs, df, csv_file, db_table, code_log, history>>

L142 == LogStatement("L142", 8, "done")

NoPage == <<>>

NoRates == <<>>

\* The interpreter exits, after the last statement or on the uncaught
\* exception: what it held in memory is gone, the files stay.
Exit ==
    /\ pc \in {"done", "failed"}
    /\ pc' = "exited"
    /\ page' = NoPage
    /\ exchange_rate_csv' = NoRates
    /\ df' = Undefined
    /\ sql_connection' = "unbound"
    /\ err' = "none"
    /\ failed_at' = "none"
    /\ csv_at_start' = csv_file
    /\ db_at_start' = db_table
    /\ log_at_start' = code_log
    /\ UNCHANGED <<run, csv_file, db_table, code_log>>

\* The script is invoked again, on the files as the last invocation left
\* them.
StartRun ==
    /\ pc = "exited"
    /\ run < MaxRuns
    /\ run' = run + 1
    /\ page' \in SamplePages
    /\ exchange_rate_csv' \in RateFiles
    /\ pc' = "L114"
    /\ UNCHANGED <<df, csv_file, db_table, code_log, sql_connection, err,
                   failed_at, history>>

Next ==
    \/ L114 \/ L116 \/ L117 \/ L119 \/ L120 \/ L122 \/ L123 \/ L125 \/ L126
    \/ L127 \/ L128 \/ L131 \/ L134 \/ L137 \/ L139 \/ L141 \/ L142
    \/ Exit \/ StartRun

Spec == Init /\ [][Next]_vars

\* One invocation on any page, on no files or on the files a complete
\* earlier invocation left.
EarlierRows ==
    transform(extract(<< <<HeaderRow, BankC, BankB, BankB>> >>).rows, ScenarioRates).rows

EarlierLog == [k \in 1..Len(Milestones) |-> [timestamp |-> 0, message |-> Milestones[k]]]

InitRun ==
    /\ pc = "L114"
    /\ run = 1
    /\ page \in Pages
    /\ exchange_rate_csv \in RateFiles
    /\ df = Undefined
    /\ \/ /\ csv_file = NoFile
          /\ db_table = NoTable
          /\ code_log = <<>>
       \/ /\ csv_file = load_to_csv(NoFile, EarlierRows)
          /\ db_table = load_to_db(NoTable, EarlierRows)
          /\ code_log = EarlierLog
    /\ sql_connection = "unbound"
    /\ err = "none"
    /\ failed_at = "none"
    /\ csv_at_start = csv_file
    /\ db_at_start = db_table
    /\ log_at_start = code_log

NextRun ==
    \/ L114 \/ L116 \/ L117 \/ L119 \/ L120 \/ L122 \/ L123 \/ L125 \/ L126
    \/ L127 \/ L128 \/ L131 \/ L134 \/ L137 \/ L139 \/ L141 \/ L142
    \/ Exit

SpecRun == InitRun /\ [][NextRun]_vars

----------------------------------------------------------------------------
(* Where an invocation stands *)

Statements ==
    <<"L114", "L116", "L117", "L119", "L120", "L122", "L123", "L125", "L126",
      "L127", "L128", "L131", "L134", "L137", "L139", "L141", "L142", "done">>

\* The statements that call log_progress, in the order of Milestones.
LogStatements == <<"L114", "L117", "L120", "L123", "L126", "L128", "L139", "L142">>

Position(l) == CHOOSE i \in 1..Len(Statements) : Statements[i] = l

Running == pc # "exited"

\* The statement the invocation stands at, or died at.
Here == IF pc = "failed" THEN failed_at ELSE pc

\* Statement l has run to its end.
Completed(l) == Running /\ Position(Here) > Position(l)

\* Statement l has run, to its end or to an exception.
Executed(l) == Completed(l) \/ (pc = "failed" /\ failed_at = l)

\* The lines this invocation has appended.
RunLines == SubSeq(code_log, Len(log_at_start) + 1, Len(code_log))

\* How many log_progress statements come before statement l.
MilestonesBefore(l) ==
    Cardinality({k \in 1..Len(LogStatements) : Position(LogStatements[k]) < Position(l)})

\* The lines of this invocation are the first n milestones, in order.
FirstMilestones(n) ==
    /\ Len(code_log) = Len(log_at_start) + n
    /\ SubSeq(code_log, 1, Len(log_at_start)) = log_at_start
    /\ \A k \in 1..n : code_log[Len(log_at_start) + k].message = Milestones[k]

\* The records a CSV file holds: its lines without the index.
CsvRecords(file) == [i \in 1..Len(file.lines) |-> Tail(file.lines[i])]

----------------------------------------------------------------------------
(* C1 *)

\* C1: once an invocation has completed both load_to_csv and load_to_db, the
\* records of the CSV file are the records of table Largest_banks, the same
\* ones in the same order.
C1_SameRecords ==
    (Completed("L122") /\ Completed("L127"))
        => /\ csv_file.exists /\ db_table.exists
           /\ CsvRecords(csv_file) = db_table.rows

C1_Witness ==
    /\ pc = "done"
    /\ run = 2
    /\ Len(db_table.rows) = 2
    /\ Len(db_at_start.rows) = 1

----------------------------------------------------------------------------
(* C2 *)

\* C2: after every successful load_to_db the table holds exactly the records
\* of the frame passed to that call, in order: nothing of an earlier load
\* stays, nothing is doubled, and loading the same frame again changes
\* nothing.
C2_Replaced ==
    Completed("L127")
        => /\ db_table.exists
           /\ Len(db_table.rows) = Len(df.rows)
           /\ \A i \in 1..Len(df.rows) : db_table.rows[i] = Values(df.rows[i])

C2_Witness ==
    /\ pc = "L128"
    /\ run = 2
    /\ Len(db_at_start.rows) > Len(db_table.rows)
    /\ Len(db_table.rows) > 0

----------------------------------------------------------------------------
(* C3 *)

\* What holds of an invocation that an exception has ended.
Aborted ==
    /\ pc = "failed"
    /\ FirstMilestones(MilestonesBefore(failed_at))
    /\ Position(failed_at) < Position("L122") => csv_file = csv_at_start
    /\ Position(failed_at) < Position("L127") => db_table = db_at_start

\* C3: when a stage raises, no later statement of the invocation runs, the
\* log holds the milestones up to the last completed one and no more, and
\* neither the CSV file nor the table changes after the failure.
C3_FailureAborts ==
    /\ []((Running /\ err # "none") => Aborted)
    /\ [][(Running /\ err # "none")
            => (pc' = "exited" /\ UNCHANGED <<csv_file, db_table, code_log>>)]_vars

C3_Witness ==
    /\ pc = "failed"
    /\ failed_at = "L127"
    /\ run = 2
    /\ csv_file # csv_at_start

----------------------------------------------------------------------------
(* C4 *)

\* C4: the connection is opened only after transform has completed, and no
\* invocation ends, normally or by an exception, with the connection open.
C4_ConnectionReleased ==
    /\ (Running /\ sql_connection # "unbound") => Completed("L119")
    /\ pc \in {"done", "failed"} => sql_connection # "open"

----------------------------------------------------------------------------
(* C5 *)

\* transform was called on a frame of floats and could read the rate file.
TransformRanOnRates ==
    /\ Executed("L119")
    /\ err \notin {"ValueError", "FileNotFoundError"}

\* C5: when the rate file lacks a required code, transform raises the
\* missing-rate error and the invocation creates or changes neither the CSV
\* file nor the table.
C5_MissingRateAborts ==
    (Running /\ TransformRanOnRates
        /\ ~({"GBP", "EUR", "INR"} \subseteq DOMAIN exchange_rate_csv))
        => /\ pc = "failed" /\ failed_at = "L119" /\ err = "KeyError"
           /\ csv_file = csv_at_start
           /\ db_table = db_at_start

----------------------------------------------------------------------------
(* C6 *)

\* The rows of the first tbody after its first row.
DataRows == IF page = <<>> \/ page[1] = <<>> THEN <<>> ELSE Tail(page[1])

\* The positions in DataRows of the rows with more than one cell.
Qualifying == {i \in 1..Len(DataRows) : Len(DataRows[i]) > 1}

\* The k-th qualifying position, in source order.
QualifyingAt(k) ==
    CHOOSE i \in Qualifying : Cardinality({j \in Qualifying : j < i}) = k - 1

WellFormed(row) == Len(row) >= 3 /\ Len(row[2].a) >= 2

ValidPage == page # <<>> /\ \A i \in Qualifying : WellFormed(DataRows[i])

\* t is s without the whitespace around it.
IsStripped(t, s) ==
    /\ t = <<>> \/ (t[1] \notin Whitespace /\ t[Len(t)] \notin Whitespace)
    /\ \E lead \in 0..Len(s) :
          /\ lead + Len(t) <= Len(s)
          /\ SubSeq(s, lead + 1, lead + Len(t)) = t
          /\ \A j \in (1..lead) \cup ((lead + Len(t) + 1)..Len(s)) : s[j] \in Whitespace

\* C6: on a valid page extract returns one record for each row after the
\* first that has more than one cell, in source order, the name being the
\* title of the second link of the second cell and the market cap the
\* stripped text of the third cell; the first row and the rows with one cell
\* or none give no record.
C6_ExtractRecords ==
    (Running /\ ValidPage /\ Executed("L116") /\ err # "ConnectionError")
        => /\ Completed("L116")
           /\ (pc = "L117" =>
                /\ df.defined
                /\ Len(df.rows) = Cardinality(Qualifying)
                /\ \A k \in 1..Len(df.rows) :
                      LET row == DataRows[QualifyingAt(k)]
                      IN  /\ df.rows[k].Name = row[2].a[2]
                          /\ IsStripped(df.rows[k].MC_USD_Billion, row[3].text))

C6_Witness ==
    /\ pc = "L117"
    /\ Len(df.rows) = 1
    /\ Len(DataRows) = 2
    /\ page[1][1] = BankB
    /\ DataRows[1] = FooterRow
    /\ df.rows[1].MC_USD_Billion # DataRows[2][3].text

----------------------------------------------------------------------------
(* C7 *)

\* y hundredths is v hundred-thousandths rounded half to even.
IsHalfEven(y, v) ==
    LET d == 1000 * y - v
    IN  /\ d <= 500 /\ 0 - d <= 500
        /\ (d = 500 \/ 0 - d = 500) => y % 2 = 0

\* C7: every record transform returns carries, for GBP, EUR and INR, its USD
\* market cap times the rate rounded to two decimals half to even; the
\* names, the USD values, the number of records and their order are those of
\* the frame extract returned.
C7_Converted ==
    Completed("L119")
        => LET before == extract(page).rows
               rate == exchange_rate_csv
           IN  /\ Len(df.rows) = Len(before)
               /\ \A i \in 1..Len(df.rows) :
                     LET r == df.rows[i]
                     IN  /\ r.Name = before[i].Name
                         /\ r.MC_USD_Billion = ToFloat(before[i].MC_USD_Billion)
                         /\ IsHalfEven(r.MC_GBP_Billion, r.MC_USD_Billion * rate["GBP"])
                         /\ IsHalfEven(r.MC_EUR_Billion, r.MC_USD_Billion * rate["EUR"])
                         /\ IsHalfEven(r.MC_INR_Billion, r.MC_USD_Billion * rate["INR"])

\* A tie that goes down to the even hundredth and one that goes up to it.
C7_Witness ==
    /\ pc = "L120"
    /\ Len(df.rows) = 2
    /\ \E i \in 1..Len(df.rows) :
          LET r == df.rows[i]
          IN  /\ 1000 * r.MC_GBP_Billion = r.MC_USD_Billion * exchange_rate_csv["GBP"] - 500
              /\ 1000 * r.MC_EUR_Billion = r.MC_USD_Billion * exchange_rate_csv["EUR"] + 500

----------------------------------------------------------------------------
(* C8 *)

ScenarioRecords ==
    <<[Name |-> "Bank A", MC_USD_Billion |-> 10000, MC_GBP_Billion |-> 8000,
       MC_EUR_Billion |-> 9300, MC_INR_Billion |-> 830000],
      [Name |-> "Bank B", MC_USD_Billion |-> 5000, MC_GBP_Billion |-> 4000,
       MC_EUR_Billion |-> 4650, MC_INR_Billion |-> 415000]>>

\* transform ran on the page with the scenario's rates, the rate file read.
ScenarioRan(p) ==
    /\ Running
    /\ page = p
    /\ exchange_rate_csv = ScenarioRates
    /\ Executed("L119")
    /\ err # "FileNotFoundError"

\* C8 as stated: rows ("Bank A", "$100.00 ") and ("Bank B", "50") with rates
\* GBP 0.8, EUR 0.93, INR 83.0 give Bank A (100.0, 80.0, 93.0, 8300.0) and
\* Bank B (50.0, 40.0, 46.5, 4150.0).
C8_AsStated ==
    ScenarioRan(ScenarioPage) => (Completed("L119") /\ df.rows = ScenarioRecords)

\* C8 amended: on those rows transform raises ValueError at the market cap
\* "$100.00" and returns no record; with the currency sign taken out
\* ("100.00 ") the two records are the ones stated, the whitespace around a
\* market cap being ignored.
C8_Amended ==
    /\ ScenarioRan(ScenarioPage)
          => (pc = "failed" /\ failed_at = "L119" /\ err = "ValueError")
    /\ ScenarioRan(ScenarioPageNoSign)
          => (Completed("L119") /\ df.rows = ScenarioRecords)

C8_Witness ==
    /\ page = ScenarioPageNoSign
    /\ exchange_rate_csv = ScenarioRates
    /\ pc = "L120"
    /\ Len(df.rows) = 2

----------------------------------------------------------------------------
(* C9 *)

\* C9: every log_progress call puts one line at the end of the log and
\* leaves the lines before it as they were; the lines of an invocation are
\* the milestones in statement order, each written after the statements
\* before its call have completed; a complete invocation writes the eight of
\* them, the last being the closed-connection line.
C9_AppendOnly ==
    /\ [][\/ code_log' = code_log
          \/ /\ Len(code_log') = Len(code_log) + 1
             /\ SubSeq(code_log', 1, Len(code_log)) = code_log]_vars
    /\ [](Running => FirstMilestones(MilestonesBefore(Here)))
    /\ [](pc = "done"
            => /\ Len(RunLines) = 8
               /\ RunLines[8].message = "Server Connection Closed")

C9_Witness ==
    /\ pc = "done"
    /\ run = 2
    /\ Len(code_log) = 11
    /\ code_log[3].timestamp = 1
    /\ code_log[4].timestamp = 2

----------------------------------------------------------------------------
(* C10 *)

Malformed == {i \in Qualifying : ~WellFormed(DataRows[i])}

\* C10: a record extract returns comes from a row after the first with at
\* least three cells and two links in its second cell; a row with more than
\* one cell that has only two cells, or fewer than two links in the second,
\* makes extract raise and return nothing, and the invocation then changes
\* neither the CSV file nor the table.
C10_AllOrNothing ==
    /\ Completed("L116")
          => /\ Malformed = {}
             /\ Len(df.rows) = Cardinality(Qualifying)
    /\ (Running /\ Malformed # {} /\ Executed("L116"))
          => /\ pc = "failed" /\ failed_at = "L116"
             /\ ~df.defined
             /\ csv_file = csv_at_start
             /\ db_table = db_at_start

C10_Witness ==
    /\ pc = "failed"
    /\ failed_at = "L116"
    /\ err = "IndexError"
    /\ Cardinality(Qualifying) = 2
    /\ Cardinality(Malformed) = 1
    /\ csv_at_start.exists
    /\ csv_file = csv_at_start

====
